---- MODULE Spec2Model ----
(***************************************************************************)
(* async-array (src/index.js): a chain of asynchronous steps (forEach, map *)
(* and filter, each parallel or serial) over an array.                     *)
(*                                                                         *)
(* The model follows the JavaScript call stack.  A worker (the function    *)
(* given to forEach/map/filter) and a completion callback (given to done)  *)
(* are user code: a worker may call its continuation while it runs (a      *)
(* synchronous call, made with the dispatching frames still on the stack)  *)
(* or later from the event loop (an asynchronous call, made with an empty  *)
(* stack).  Completion callbacks only observe.  Everything the library     *)
(* does between two pieces of user code is one atomic step.                *)
(*                                                                         *)
(* Array indices are those of the source (0-based); TLA+ sequences are     *)
(* 1-based, so a[i] of the source is a[i + 1] here (see At).               *)
(***************************************************************************)
EXTENDS Integers, Sequences, FiniteSets, TLC

(***************************************************************************)
(* Bounds of the model.                                                    *)
(***************************************************************************)
\* longest input array
MaxLen == 2
\* longest chain of steps
MaxSteps == 2
\* most calls of exec on the one Operation
MaxRuns == 2
\* most repeated calls (calls after the first) of continuations in one run
MaxExtra == 1
\* most done() registrations on one step
MaxCallbacks == 2

(***************************************************************************)
(* JavaScript values.  Everything that can be stored in an array is an     *)
(* integer here, so that a result holding indices can be compared with one *)
(* holding elements: indices are 0, 1, ..., elements and data are the      *)
(* numbers below.                                                          *)
(***************************************************************************)
\* next() and next(null): the data argument is absent
Undefined == -1
\* next(null, true)
True == -2
\* next(null, 'did ' + i): a truthy value that is not the boolean true
Truthy == 21
\* a second such value
Truthy2 == 22

\* element i of the input arrays of the model
Item(i) == 11 + i

\* error argument of a continuation: Null is "no error" (null or absent)
Null == "null"
Errors == {"E1", "E2"}

Kinds == {"forEach", "map", "filter"}

VARIABLES
  array,       \* Operation.array: the source array of the chain
  steps,       \* Operation.steps: [kind, serial, callbacks]
  nruns,       \* number of exec() calls made so far
  passed,      \* passed[r]: whether the r-th exec call was given an argument
  oper_state,  \* the OperState objects: [index]
  state,       \* the StepState objects of each OperState, one per step run
  fired,       \* fired[r][k][p]: the calls made so far, <<error, data>> each,
               \* of the continuation handed to the p-th worker invocation
               \* of step k in run r
  trace,       \* trace[r]: the calls run r has made of user code, in order:
               \* workers and completion callbacks (and each Step.run)
  last,        \* the continuation call just made, if the last step was one
  stack        \* the JavaScript call stack: user-code frames and dispatch loops

vars ==
  <<array, steps, nruns, passed, oper_state, state, fired, trace, last, stack>>

Runs == 1..MaxRuns

(***************************************************************************)
(* Arrays.                                                                 *)
(***************************************************************************)
\* a[i]; reading past the end gives undefined
At(a, i) == IF i >= 0 /\ i < Len(a) THEN a[i + 1] ELSE Undefined

\* a[i] = v.  On a real array a write past the end extends it (the holes
\* read as undefined).  An AsyncArray is an ordinary object whose length
\* only push maintains: a write at i >= length sets a property that neither
\* length nor any length-bounded read shows.
WriteAt(a, i, v, wrapped) ==
  IF i < Len(a) THEN [a EXCEPT ![i + 1] = v]
  ELSE IF wrapped THEN a
  ELSE [j \in 1..(i + 1) |-> IF j = i + 1 THEN v
                             ELSE IF j <= Len(a) THEN a[j] ELSE Undefined]

\* s with position k set to v (a new position k is added at the end)
SetAt(s, k, v) ==
  [j \in 1..(IF k > Len(s) THEN k ELSE Len(s)) |->
     IF j = k THEN v ELSE IF j <= Len(s) THEN s[j] ELSE v]

\* (mutant) a sort that leaves the array as it is
SortNone(s) == s

RECURSIVE InsertSorted(_, _)
InsertSorted(s, x) ==
  IF s = <<>> THEN <<x>>
  ELSE IF x - s[1] < 0 THEN <<x>> \o s
  ELSE <<s[1]>> \o InsertSorted(Tail(s), x)

\* Array.prototype.sort with Filter.SORTFN (a - b): ascending, numeric
RECURSIVE SORTFN(_)
SORTFN(s) == IF s = <<>> THEN <<>> ELSE InsertSorted(SORTFN(Tail(s)), s[1])

(***************************************************************************)
(* Building the chain.                                                     *)
(***************************************************************************)
\* new Step(oper, callback, serial): no completion callbacks yet
Step(kind, serial) == [kind |-> kind, serial |-> serial, callbacks |-> 0]

\* this.steps.push(new Step / Map / Filter (this, callback, serial))
AddStep(ss, kind, serial) == Append(ss, Step(kind, serial))

\* this.lastStep().callbacks.push(callback)
AddDone(ss) == [ss EXCEPT ![Len(ss)].callbacks = @ + 1]

(***************************************************************************)
(* The engine.  Each operator below takes and returns the part of the      *)
(* program state one run can touch:                                        *)
(*   c.index  OperState.index                                              *)
(*   c.st     the StepState objects of the run (c.st[k]: step k, 1-based)  *)
(*   c.fd     the continuations handed out, with their call counts         *)
(*   c.tr     the run's trace                                              *)
(*   c.call   the continuation call being made, if any                     *)
(*   c.stk    the call stack                                               *)
(***************************************************************************)

\* (mutant) every step runs over the Operation's array
ArrayOfOriginal(st, k) == array

\* state.array of step k: the Operation's array for the first step, else the
\* result object of the step before (the same object, not a copy)
ArrayOf(st, k) == IF k = 1 THEN array ELSE st[k - 1].result

\* this.callback(array[i], i, continuation): user code starts running
InvokeWorker(c, r, k, i) ==
  [c EXCEPT !.fd[k] = Append(@, <<>>),
            !.tr = Append(@, [e |-> "worker", k |-> k, i |-> i,
                              item |-> At(ArrayOf(c.st, k), i)]),
            !.stk = Append(@, [t |-> "worker", r |-> r, k |-> k,
                               p |-> Len(c.fd[k]) + 1])]

\* new StepState(step, oper_state, array, result): result || array, and run
\* always passes [], which is truthy, so the result is that new empty array
StepState(result) ==
  [result |-> result, count |-> 0, done |-> FALSE, wrapped |-> FALSE]

\* (mutant) run that does not look at this.serial
StepRunParallel(c, r, k) ==
  LET n  == Len(ArrayOf(c.st, k))
      c1 == [c EXCEPT !.st = SetAt(@, k, StepState(<<>>)),
                      !.fd = SetAt(@, k, <<>>),
                      !.tr = Append(@, [e |-> "run", k |-> k, n |-> n])]
  IN [c1 EXCEPT !.stk = Append(@, [t |-> "loop", r |-> r, k |-> k,
                                   i |-> 0, len |-> n])]

\* Step.prototype.run
StepRun(c, r, k) ==
  LET n  == Len(ArrayOf(c.st, k))
      c1 == [c EXCEPT !.st = SetAt(@, k, StepState(<<>>)),
                      !.fd = SetAt(@, k, <<>>),
                      !.tr = Append(@, [e |-> "run", k |-> k, n |-> n])]
  IN IF steps[k].serial
     THEN InvokeWorker(c1, r, k, 0)
     ELSE [c1 EXCEPT !.stk = Append(@, [t |-> "loop", r |-> r, k |-> k,
                                        i |-> 0, len |-> n])]

\* (mutant) _next without its "if (error) return"
OperNextOnError(c, r, error) ==
  LET c1 == [c EXCEPT !.index = @ + 1]
  IN IF c1.index < Len(steps) THEN StepRun(c1, r, c1.index + 1) ELSE c1

\* (mutant) _next that increments the index only when a next step exists
OperNextNoLastIncrement(c, r, error) ==
  IF error # Null THEN c
  ELSE IF c.index + 1 < Len(steps)
       THEN StepRun([c EXCEPT !.index = @ + 1], r, c.index + 2)
       ELSE c

\* Operation.prototype._next
OperNext(c, r, error) ==
  IF error # Null THEN c
  ELSE LET c1 == [c EXCEPT !.index = @ + 1]
       IN IF c1.index < Len(steps) THEN StepRun(c1, r, c1.index + 1) ELSE c1

\* (mutant) done that advances the chain before it calls the callbacks
StepDoneNextFirst(c, r, k, error) ==
  LET c1  == [c EXCEPT !.st[k].wrapped = TRUE]
      res == c1.st[k].result
      cbs == [j \in 1..steps[k].callbacks |->
                [e |-> "cb", k |-> k, c |-> j, err |-> error, res |-> res]]
      c2  == OperNext(c1, r, error)
  IN [c2 EXCEPT !.tr = @ \o cbs]

\* (mutant) done that keeps one callback per step: only the one registered
\* last is called
StepDoneLastOnly(c, r, k, error) ==
  LET c1  == [c EXCEPT !.st[k].wrapped = TRUE]
      res == c1.st[k].result
      cbs == [j \in 1..(IF steps[k].callbacks = 0 THEN 0 ELSE 1) |->
                [e |-> "cb", k |-> k, c |-> steps[k].callbacks,
                 err |-> error, res |-> res]]
  IN OperNext([c1 EXCEPT !.tr = @ \o cbs], r, error)

\* Step.prototype.done
StepDone(c, r, k, error) ==
  LET c1  == [c EXCEPT !.st[k].wrapped = TRUE]
      res == c1.st[k].result
      cbs == [j \in 1..steps[k].callbacks |->
                [e |-> "cb", k |-> k, c |-> j, err |-> error, res |-> res]]
  IN OperNext([c1 EXCEPT !.tr = @ \o cbs], r, error)

\* Filter.prototype.done
FilterDone(c, r, k, error) ==
  IF error = Null /\ ~steps[k].serial
  THEN LET result == SORTFN(c.st[k].result)
           elems  == [j \in 1..Len(result) |-> At(ArrayOf(c.st, k), result[j])]
       IN StepDone([c EXCEPT !.st[k].result = elems], r, k, error)
  ELSE StepDone(c, r, k, error)

\* this.done(error, state)
Done(c, r, k, error) ==
  IF steps[k].kind = "filter" THEN FilterDone(c, r, k, error)
  ELSE StepDone(c, r, k, error)

\* (mutant) next that tests the latch only where it is about to finish
StepNextLateGuard(c, r, k, i, error, data) ==
  IF error # Null
  THEN IF c.st[k].done THEN c
       ELSE Done([c EXCEPT !.st[k].done = TRUE], r, k, error)
  ELSE LET c1   == [c EXCEPT !.st[k].count = @ + 1]
           full == c1.st[k].count >= Len(ArrayOf(c1.st, k))
       IN IF full
          THEN IF c.st[k].done THEN c1
               ELSE Done([c1 EXCEPT !.st[k].done = TRUE], r, k, Null)
          ELSE IF steps[k].serial
               THEN InvokeWorker(c1, r, k, c1.st[k].count)
               ELSE c1

\* (mutant) next that sets the latch but never tests it
StepNextNoGuard(c, r, k, i, error, data) ==
  IF error # Null
  THEN Done([c EXCEPT !.st[k].done = TRUE], r, k, error)
  ELSE LET c1   == [c EXCEPT !.st[k].count = @ + 1]
           full == c1.st[k].count >= Len(ArrayOf(c1.st, k))
       IN IF steps[k].serial
          THEN IF full
               THEN Done([c1 EXCEPT !.st[k].done = TRUE], r, k, Null)
               ELSE InvokeWorker(c1, r, k, c1.st[k].count)
          ELSE IF full
               THEN Done([c1 EXCEPT !.st[k].done = TRUE], r, k, Null)
               ELSE c1

\* Step.prototype.next
StepNext(c, r, k, i, error, data) ==
  IF c.st[k].done THEN c
  ELSE IF error # Null
  THEN Done([c EXCEPT !.st[k].done = TRUE], r, k, error)
  ELSE LET c1   == [c EXCEPT !.st[k].count = @ + 1]
           full == c1.st[k].count >= Len(ArrayOf(c1.st, k))
       IN IF steps[k].serial
          THEN IF full
               THEN Done([c1 EXCEPT !.st[k].done = TRUE], r, k, Null)
               ELSE InvokeWorker(c1, r, k, c1.st[k].count)
          ELSE IF full
               THEN Done([c1 EXCEPT !.st[k].done = TRUE], r, k, Null)
               ELSE c1

\* Map.prototype.next
MapNext(c, r, k, i, error, data) ==
  StepNext([c EXCEPT !.st[k].result = WriteAt(@, i, data, c.st[k].wrapped)],
           r, k, i, error, data)

\* Filter.prototype.next
FilterNext(c, r, k, i, error, data) ==
  StepNext(IF data = True THEN [c EXCEPT !.st[k].result = Append(@, i)] ELSE c,
           r, k, i, error, data)

\* step.next(state, i, error, data)
Next_(c, r, k, i, error, data) ==
  CASE steps[k].kind = "map"    -> MapNext(c, r, k, i, error, data)
    [] steps[k].kind = "filter" -> FilterNext(c, r, k, i, error, data)
    [] OTHER                    -> StepNext(c, r, k, i, error, data)

\* A call of the continuation handed to the p-th worker invocation of step k:
\* the closure of the parallel branch passes its own i, state.serialfn passes
\* state.count
Continuation(c, r, k, p, error, data, sync) ==
  LET i == IF steps[k].serial THEN c.st[k].count ELSE p - 1
  IN Next_([c EXCEPT !.fd[k][p] = Append(@, <<error, data>>),
                     !.call = [r |-> r, k |-> k, p |-> p, i |-> i, err |-> error,
                               data |-> data, sync |-> sync,
                               latched |-> c.st[k].done]],
           r, k, i, error, data)

(***************************************************************************)
(* The program state.                                                      *)
(***************************************************************************)
\* (mutant) one OperState, and its StepStates, kept for all runs
OperStateShared(r) == 1

\* var state = new OperState(this): the r-th exec gets an object of its own
OperState(r) == r

NoCall == [r |-> 0]

Ctx(r) ==
  [index |-> oper_state[OperState(r)], st |-> state[OperState(r)],
   fd |-> fired[r], tr |-> trace[r], call |-> NoCall, stk |-> stack]

Commit(r, c) ==
  /\ oper_state' = [oper_state EXCEPT ![OperState(r)] = c.index]
  /\ state' = [state EXCEPT ![OperState(r)] = c.st]
  /\ fired' = [fired EXCEPT ![r] = c.fd]
  /\ trace' = [trace EXCEPT ![r] = c.tr]
  /\ last' = c.call
  /\ stack' = c.stk

Arrays == {[i \in 1..n |-> Item(i - 1)] : n \in 0..MaxLen}

\* new AsyncArray(arr); new Operation(array)
Init ==
  /\ array \in Arrays
  /\ steps = <<>>
  /\ nruns = 0
  /\ passed = [r \in Runs |-> FALSE]
  /\ oper_state = [r \in Runs |-> 0]
  /\ state = [r \in Runs |-> <<>>]
  /\ fired = [r \in Runs |-> <<>>]
  /\ trace = [r \in Runs |-> <<>>]
  /\ last = NoCall
  /\ stack = <<>>

(***************************************************************************)
(* Operations.  The chain is built before it is executed (the Operation is *)
(* not changed by its user once exec has been called).                     *)
(***************************************************************************)
Building == nruns = 0 /\ stack = <<>>

Build(ss) ==
  /\ Building
  /\ steps' = ss
  /\ UNCHANGED <<array, nruns, passed, oper_state, state, fired, trace, last, stack>>

\* Operation.prototype.forEach
forEach == Len(steps) < MaxSteps /\ Build(AddStep(steps, "forEach", FALSE))
\* Operation.prototype.forEachSerial
forEachSerial == Len(steps) < MaxSteps /\ Build(AddStep(steps, "forEach", TRUE))
\* Operation.prototype.map
map == Len(steps) < MaxSteps /\ Build(AddStep(steps, "map", FALSE))
\* Operation.prototype.mapSerial
mapSerial == Len(steps) < MaxSteps /\ Build(AddStep(steps, "map", TRUE))
\* Operation.prototype.filter
filter == Len(steps) < MaxSteps /\ Build(AddStep(steps, "filter", FALSE))
\* Operation.prototype.filterSerial
filterSerial == Len(steps) < MaxSteps /\ Build(AddStep(steps, "filter", TRUE))

\* Operation.prototype.done
done ==
  /\ Len(steps) >= 1
  /\ steps[Len(steps)].callbacks < MaxCallbacks
  /\ Build(AddDone(steps))

\* Operation.prototype.exec, called from the event loop, at most m times,
\* as .exec()
exec(m) ==
  /\ stack = <<>>
  /\ Len(steps) >= 1
  /\ nruns < m
  /\ LET r == nruns + 1
     IN Commit(r, StepRun([index |-> 0, st |-> state[OperState(r)], fd |-> <<>>,
                           tr |-> <<>>, call |-> NoCall, stk |-> <<>>], r, 1))
  /\ nruns' = nruns + 1
  /\ passed' = [passed EXCEPT ![nruns + 1] = FALSE]
  /\ UNCHANGED <<array, steps>>

\* (mutant) exec that registers its argument as one more completion
\* callback of the last step
execRegisters(m) ==
  /\ stack = <<>>
  /\ Len(steps) >= 1
  /\ nruns < m
  /\ LET r == nruns + 1
     IN Commit(r, StepRun([index |-> 0, st |-> state[OperState(r)], fd |-> <<>>,
                           tr |-> <<>>, call |-> NoCall, stk |-> <<>>], r, 1))
  /\ nruns' = nruns + 1
  /\ passed' = [passed EXCEPT ![nruns + 1] = TRUE]
  /\ steps' = AddDone(steps)
  /\ UNCHANGED array

\* ... and as .exec(function (error, results) { ... }): the function
\* declares no parameter and does not read its arguments
execCallback(m) ==
  /\ stack = <<>>
  /\ Len(steps) >= 1
  /\ nruns < m
  /\ LET r == nruns + 1
     IN Commit(r, StepRun([index |-> 0, st |-> state[OperState(r)], fd |-> <<>>,
                           tr |-> <<>>, call |-> NoCall, stk |-> <<>>], r, 1))
  /\ nruns' = nruns + 1
  /\ passed' = [passed EXCEPT ![nruns + 1] = TRUE]
  /\ UNCHANGED <<array, steps>>

Top == stack[Len(stack)]
Pop == SubSeq(stack, 1, Len(stack) - 1)

\* (mutant) a dispatch loop that stops one element short
DispatchShort ==
  /\ stack # <<>>
  /\ Top.t = "loop"
  /\ LET f == Top
         c == [Ctx(f.r) EXCEPT !.stk = Pop]
     IN IF f.i < f.len - 1
        THEN Commit(f.r, InvokeWorker([c EXCEPT !.stk = Append(@, [f EXCEPT !.i = @ + 1])],
                                     f.r, f.k, f.i))
        ELSE Commit(f.r, c)
  /\ UNCHANGED <<array, steps, nruns, passed>>

\* One turn of Array.prototype.forEach.call(array, ...) in Step.prototype.run:
\* the worker of the next index is invoked, or the loop is over
Dispatch ==
  /\ stack # <<>>
  /\ Top.t = "loop"
  /\ LET f == Top
         c == [Ctx(f.r) EXCEPT !.stk = Pop]
     IN IF f.i < f.len
        THEN Commit(f.r, InvokeWorker([c EXCEPT !.stk = Append(@, [f EXCEPT !.i = @ + 1])],
                                     f.r, f.k, f.i))
        ELSE Commit(f.r, c)
  /\ UNCHANGED <<array, steps, nruns, passed>>

\* The running worker returns
Return ==
  /\ stack # <<>>
  /\ Top.t = "worker"
  /\ stack' = Pop
  /\ last' = NoCall
  /\ UNCHANGED <<array, steps, nruns, passed, oper_state, state, fired, trace>>

RECURSIVE SumSeq(_)
SumSeq(s) == IF s = <<>> THEN 0 ELSE s[1] + SumSeq(Tail(s))

\* the repeated calls made so far in run r
Extra(r) ==
  SumSeq([k \in 1..Len(fired[r]) |->
            SumSeq([p \in 1..Len(fired[r][k]) |->
                      IF Len(fired[r][k][p]) > 1
                      THEN Len(fired[r][k][p]) - 1 ELSE 0])])

\* the worker contract is one call of each continuation; the model allows
\* up to m calls more in a run
MayCall(r, k, p, m) == fired[r][k][p] = <<>> \/ Extra(r) < m

\* The running worker calls its continuation, with arguments from A
SyncCall(A, m) ==
  /\ stack # <<>>
  /\ Top.t = "worker"
  /\ MayCall(Top.r, Top.k, Top.p, m)
  /\ \E a \in A[steps[Top.k].kind] :
       Commit(Top.r, Continuation(Ctx(Top.r), Top.r, Top.k, Top.p, a[1], a[2], TRUE))
  /\ UNCHANGED <<array, steps, nruns, passed>>

\* A continuation handed out earlier is called from the event loop
AsyncCall(A, m) ==
  /\ stack = <<>>
  /\ \E r \in 1..nruns : \E k \in 1..Len(fired[r]) : \E p \in 1..Len(fired[r][k]) :
       /\ MayCall(r, k, p, m)
       /\ \E a \in A[steps[k].kind] :
            Commit(r, Continuation(Ctx(r), r, k, p, a[1], a[2], FALSE))
  /\ UNCHANGED <<array, steps, nruns, passed>>

\* What the workers of each kind of step pass to their continuation without
\* an error: next() and next(null, data).  Step.prototype.next reads no data.
ArgsOk ==
  [kind \in Kinds |->
     CASE kind = "forEach" -> {<<Null, Undefined>>}
       [] kind = "map"     -> {<<Null, Undefined>>, <<Null, Truthy>>, <<Null, Truthy2>>}
       [] kind = "filter"  -> {<<Null, Undefined>>, <<Null, True>>, <<Null, Truthy>>}]

\* ... and with one: next(error).  Fewer data values go with them.
ArgsErr ==
  [kind \in Kinds |->
     {<<x, Undefined>> : x \in Errors} \cup
     (CASE kind = "forEach" -> {<<Null, Undefined>>}
        [] kind = "map"     -> {<<Null, Truthy>>}
        [] kind = "filter"  -> {<<Null, Undefined>>, <<Null, True>>})]

Next ==
  \/ forEach \/ forEachSerial \/ map \/ mapSerial \/ filter \/ filterSerial
  \/ done
  \/ exec(MaxRuns)
  \/ execCallback(MaxRuns)
  \/ Dispatch
  \/ Return
  \/ SyncCall(ArgsErr, MaxExtra)
  \/ AsyncCall(ArgsErr, MaxExtra)

Spec == Init /\ [][Next]_vars

(***************************************************************************)
(* Executions of a chain that has been built: the state after              *)
(* items.map(..).done(..).done(..).filterSerial(..).done(..) and the like. *)
(***************************************************************************)
Serials == {FALSE, TRUE}

RECURSIVE AddDones(_, _)
AddDones(ss, n) == IF n = 0 THEN ss ELSE AddDones(AddDone(ss), n - 1)

\* the chains of one step, with MaxCallbacks completion callbacks
Chains1 ==
  {AddDones(AddStep(<<>>, kind, serial), MaxCallbacks) :
     kind \in Kinds, serial \in Serials}

\* the chains of two steps with MaxCallbacks completion callbacks each
Chains2 ==
  {AddDones(AddStep(ss, kind, serial), MaxCallbacks) :
     ss \in Chains1, kind \in Kinds, serial \in Serials}

\* those that go with repeated calls and errors: any step and then a serial
\* forEach, and a serial map and then a parallel one
Chains2Err ==
  {AddDones(AddStep(ss, "forEach", TRUE), MaxCallbacks) : ss \in Chains1} \cup
  {AddDones(AddStep(AddDones(AddStep(<<>>, "map", TRUE), MaxCallbacks),
                    "map", FALSE), MaxCallbacks)}

InitBuilt(C, A) ==
  /\ array \in A
  /\ steps \in C
  /\ nruns = 0
  /\ passed = [r \in Runs |-> FALSE]
  /\ oper_state = [r \in Runs |-> 0]
  /\ state = [r \in Runs |-> <<>>]
  /\ fired = [r \in Runs |-> <<>>]
  /\ trace = [r \in Runs |-> <<>>]
  /\ last = NoCall
  /\ stack = <<>>

\* One run of a chain; continuations are called with or without an error,
\* synchronously or not, and up to MaxExtra times more than once
InitAll == InitBuilt(Chains1 \cup Chains2Err, Arrays)

NextAll ==
  \/ exec(1)
  \/ Dispatch
  \/ Return
  \/ SyncCall(ArgsErr, MaxExtra)
  \/ AsyncCall(ArgsErr, MaxExtra)

SpecAll == InitAll /\ [][NextAll]_vars

\* One run of a chain whose workers keep their contract: each continuation
\* is called once at most, without an error, synchronously or not
NextOnce ==
  \/ exec(1)
  \/ Dispatch
  \/ Return
  \/ SyncCall(ArgsOk, 0)
  \/ AsyncCall(ArgsOk, 0)

InitOnce == InitBuilt(Chains1 \cup Chains2, Arrays)

SpecOnce == InitOnce /\ [][NextOnce]_vars

\* Several runs of the one chain, their continuations called from the event
\* loop in any interleaving, each once at most, with or without an error
ChainsRuns ==
  {AddDones(AddStep(<<>>, "map", FALSE), MaxCallbacks),
   AddDones(AddStep(AddDones(AddStep(<<>>, "map", TRUE), MaxCallbacks),
                    "filter", TRUE), MaxCallbacks)}

ArgsRuns ==
  [kind \in Kinds |->
     {<<Null, IF kind = "filter" THEN True ELSE Truthy>>, <<"E1", Undefined>>}]

InitRuns == InitBuilt(ChainsRuns, Arrays)

NextRuns ==
  \/ exec(MaxRuns)
  \/ Dispatch
  \/ Return
  \/ AsyncCall(ArgsRuns, 0)

SpecRuns == InitRuns /\ [][NextRuns]_vars

\* One run of a chain whose steps have any number of completion callbacks,
\* from none to MaxCallbacks; continuations are called once at most, with
\* or without an error, synchronously or not
ChainsDone ==
  LET First == {AddDones(AddStep(<<>>, kind, serial), n) :
                  kind \in Kinds, serial \in Serials, n \in 0..MaxCallbacks}
  IN First \cup
     {AddDones(AddStep(ss, "map", FALSE), n) :
        ss \in First, n \in 0..MaxCallbacks} \cup
     {AddDones(AddStep(ss, "filter", TRUE), n) :
        ss \in First, n \in 0..MaxCallbacks}

InitDone == InitBuilt(ChainsDone, Arrays)

NextDone ==
  \/ exec(1)
  \/ Dispatch
  \/ Return
  \/ SyncCall(ArgsErr, 0)
  \/ AsyncCall(ArgsErr, 0)

SpecDone == InitDone /\ [][NextDone]_vars

\* Several runs of the one chain, started by exec with and without an
\* argument: the chains that test.js starts with exec(callback)
ChainsExec ==
  {AddDones(AddStep(<<>>, "filter", FALSE), MaxCallbacks),
   AddDones(AddStep(<<>>, "map", TRUE), MaxCallbacks)}

\* the filter keeps, the map passes a value or fails
ArgsExec ==
  [kind \in Kinds |->
     IF kind = "filter" THEN {<<Null, True>>}
     ELSE {<<Null, Truthy>>, <<"E1", Undefined>>}]

InitExec == InitBuilt(ChainsExec, Arrays)

NextExec ==
  \/ exec(MaxRuns)
  \/ execCallback(MaxRuns)
  \/ Dispatch
  \/ Return
  \/ AsyncCall(ArgsExec, 0)

SpecExec == InitExec /\ [][NextExec]_vars

\* One run, to its end, of a chain over an array that is not empty: a step,
\* or a filter or a map and then any step.  The call stack runs to
\* completion (every worker returns, every dispatch loop goes on), and a
\* continuation that has not been called is called in the end
ChainsLive ==
  LET First == {AddDones(AddStep(<<>>, kind, serial), MaxCallbacks) :
                  kind \in {"filter", "map"}, serial \in Serials}
  IN Chains1 \cup
     {AddDones(AddStep(ss, kind, serial), MaxCallbacks) :
        ss \in First, kind \in Kinds, serial \in Serials}

InitLive == InitBuilt(ChainsLive, Arrays \ {<<>>})

NextLive ==
  \/ exec(1)
  \/ Dispatch
  \/ Return
  \/ SyncCall(ArgsErr, 0)
  \/ AsyncCall(ArgsErr, 0)

SpecLive ==
  /\ InitLive
  /\ [][NextLive]_vars
  /\ WF_vars(Dispatch)
  /\ WF_vars(Return)
  /\ WF_vars(AsyncCall(ArgsErr, 0))

(***************************************************************************)
(* Reading the state and the trace.                                        *)
(***************************************************************************)
\* the events e of step k in the trace of run r, in order
EventsOf(r, e, k) == SelectSeq(trace[r], LAMBDA x : x.e = e /\ x.k = k)

\* the StepState objects of run r
StatesOf(r) == state[OperState(r)]

\* the steps run r has started
Started(r) == 1..Len(fired[r])

\* the length of the input of step k when it was run
InputLen(r, k) == EventsOf(r, "run", k)[1].n

\* step k of run r has called its completion callbacks with an error
Failed(r, k) == \E j \in 1..Len(trace[r]) :
  trace[r][j].e = "cb" /\ trace[r][j].k = k /\ trace[r][j].err # Null

\* the calls of continuations of step k that passed no error
OkCalls(r, k) ==
  SumSeq([p \in 1..Len(fired[r][k]) |->
            Len(SelectSeq(fired[r][k][p], LAMBDA a : a[1] = Null))])

\* every continuation step k has handed out was called at most once
AtMostOnce(r, k) == \A p \in 1..Len(fired[r][k]) : Len(fired[r][k][p]) <= 1

\* every continuation step k has handed out was called exactly once
ExactlyOnce(r, k) == \A p \in 1..Len(fired[r][k]) : Len(fired[r][k][p]) = 1

\* the data of the one call of the continuation of element i (at-most-once runs)
Passed(r, k, i) == fired[r][k][i + 1][1][2]

\* the indices whose continuation was called with (null, true), ascending
KeptIndices(r, k) ==
  SelectSeq([p \in 1..Len(fired[r][k]) |-> p - 1],
            LAMBDA i : /\ fired[r][k][i + 1] # <<>>
                       /\ fired[r][k][i + 1][1] = <<Null, True>>)

\* the elements of the input of step k at those indices
Kept(r, k) ==
  [j \in 1..Len(KeptIndices(r, k)) |->
     At(ArrayOf(StatesOf(r), k), KeptIndices(r, k)[j])]

\* the successful calls of the completion callbacks of step k
OkCallbacks(r, k) ==
  SelectSeq(trace[r], LAMBDA x : x.e = "cb" /\ x.k = k /\ x.err = Null)

(***************************************************************************)
(* C1.  If a continuation of a step is called with an error while the step *)
(* has not latched done, every completion callback of that step is called  *)
(* exactly once, with that error, and the run never calls a worker or a    *)
(* completion callback of a later step, whatever is called afterwards.     *)
(***************************************************************************)
C1_ErrorStopsChain ==
  /\ (last.r # 0 /\ last.err # Null /\ ~last.latched) =>
       LET cbs == EventsOf(last.r, "cb", last.k)
       IN /\ Len(cbs) = steps[last.k].callbacks
          /\ \A j \in 1..Len(cbs) : cbs[j].c = j /\ cbs[j].err = last.err
  /\ \A r \in 1..nruns : \A k \in Started(r) :
       Failed(r, k) =>
         /\ LET cbs == EventsOf(r, "cb", k)
            IN /\ Len(cbs) = steps[k].callbacks
               /\ \A j \in 1..Len(cbs) : cbs[j].c = j /\ cbs[j].err = cbs[1].err
         /\ \A j \in 1..Len(trace[r]) : trace[r][j].k <= k

\* the first of two steps, over two elements, has failed and one of its
\* continuations is called again
C1_Witness ==
  /\ last.r # 0
  /\ Len(array) = 2
  /\ last.latched
  /\ last.k = 1
  /\ Len(steps) = 2
  /\ Failed(last.r, 1)

(***************************************************************************)
(* C2.  As claimed: a map step over n elements whose continuations are     *)
(* each called once without error passes to its completion callbacks a     *)
(* result of length n whose element i is the value the continuation of     *)
(* element i was called with.                                              *)
(***************************************************************************)
C2_MapPositional ==
  \A r \in 1..nruns : \A k \in Started(r) :
    steps[k].kind = "map" =>
      \A c \in 1..Len(OkCallbacks(r, k)) :
        LET res == OkCallbacks(r, k)[c].res
        IN /\ Len(res) = InputLen(r, k)
           /\ \A i \in 0..(InputLen(r, k) - 1) : At(res, i) = Passed(r, k, i)

\* The same for the inputs that are not empty, where it holds
C2_MapPositionalNonEmpty ==
  \A r \in 1..nruns : \A k \in Started(r) :
    (steps[k].kind = "map" /\ InputLen(r, k) > 0) =>
      \A c \in 1..Len(OkCallbacks(r, k)) :
        LET res == OkCallbacks(r, k)[c].res
        IN /\ Len(res) = InputLen(r, k)
           /\ \A i \in 0..(InputLen(r, k) - 1) : At(res, i) = Passed(r, k, i)

(***************************************************************************)
(* C3.  A parallel filter step whose continuations are each called once    *)
(* without error passes to its completion callbacks exactly the input      *)
(* elements whose continuation was called with (null, true), in ascending  *)
(* order of their index, in whatever order the calls were made.            *)
(***************************************************************************)
C3_ParallelFilterOrder ==
  \A r \in 1..nruns : \A k \in Started(r) :
    (steps[k].kind = "filter" /\ ~steps[k].serial) =>
      \A c \in 1..Len(OkCallbacks(r, k)) : OkCallbacks(r, k)[c].res = Kept(r, k)

\* element 0 is the last of two to complete, and both are kept
C3_Witness ==
  /\ last.r # 0
  /\ steps[last.k].kind = "filter"
  /\ ~steps[last.k].serial
  /\ last.p = 1
  /\ InputLen(last.r, last.k) = 2
  /\ Len(OkCallbacks(last.r, last.k)) > 0
  /\ Len(OkCallbacks(last.r, last.k)[1].res) = 2

(***************************************************************************)
(* C4.  As claimed: a serial filter step that finishes without error       *)
(* passes to its completion callbacks the kept input elements, in order.   *)
(***************************************************************************)
C4_SerialFilterElements ==
  \A r \in 1..nruns : \A k \in Started(r) :
    (steps[k].kind = "filter" /\ steps[k].serial) =>
      \A c \in 1..Len(OkCallbacks(r, k)) : OkCallbacks(r, k)[c].res = Kept(r, k)

(***************************************************************************)
(* C5.  As claimed: once every worker a forEach step over n elements       *)
(* (n >= 0) has called has called its continuation once without error and  *)
(* has returned, the step has called its worker exactly n times and each   *)
(* of its completion callbacks exactly once, with a null error.            *)
(***************************************************************************)
C5_ForEachCompletes ==
  \A r \in 1..nruns : \A k \in Started(r) :
    (steps[k].kind = "forEach" /\ stack = <<>> /\ ExactlyOnce(r, k)) =>
      LET cbs == EventsOf(r, "cb", k)
      IN /\ Len(EventsOf(r, "worker", k)) = InputLen(r, k)
         /\ Len(cbs) = steps[k].callbacks
         /\ \A j \in 1..Len(cbs) : cbs[j].c = j /\ cbs[j].err = Null

(***************************************************************************)
(* C6.  No worker of step k+1 is called before step k has latched done     *)
(* with success and has called all its completion callbacks; at most one   *)
(* step of a run is started and not latched.                               *)
(***************************************************************************)
C6_NoPipelining ==
  \A r \in 1..nruns :
    /\ \A j \in 1..Len(trace[r]) :
         (trace[r][j].e = "worker" /\ trace[r][j].k > 1) =>
           LET k      == trace[r][j].k - 1
               before == SelectSeq(SubSeq(trace[r], 1, j - 1),
                                   LAMBDA x : x.e = "cb" /\ x.k = k)
           IN /\ StatesOf(r)[k].done
              /\ Len(before) = steps[k].callbacks
              /\ \A c \in 1..Len(before) : before[c].c = c /\ before[c].err = Null
              /\ Len(EventsOf(r, "cb", k)) = steps[k].callbacks
    /\ Cardinality({k \in Started(r) : ~StatesOf(r)[k].done}) <= 1

\* a worker of the second step is called after a first step over two elements
C6_Witness ==
  /\ nruns = 1
  /\ Len(array) = 2
  /\ \E j \in 1..Len(trace[1]) : trace[1][j].e = "worker" /\ trace[1][j].k = 2

(***************************************************************************)
(* C7.  A serial step calls its workers in index order 0, 1, 2, ...; the   *)
(* worker of element i+1 is called only after a continuation call without  *)
(* error for each element before it; and while every continuation has been *)
(* called at most once, the continuation of element i has been called      *)
(* without error before the worker of element i+1 is called, so at most    *)
(* one worker is in flight.                                                *)
(***************************************************************************)
C7_SerialOrder ==
  \A r \in 1..nruns : \A k \in Started(r) :
    steps[k].serial =>
      LET W == EventsOf(r, "worker", k)
      IN /\ \A j \in 1..Len(W) : W[j].i = j - 1
         /\ Len(W) <= OkCalls(r, k) + 1
         /\ AtMostOnce(r, k) =>
              /\ \A p \in 1..(Len(W) - 1) :
                   fired[r][k][p] # <<>> /\ fired[r][k][p][1][1] = Null
              /\ Cardinality({p \in 1..Len(W) : fired[r][k][p] = <<>>}) <= 1

\* a serial step over two elements has called both workers and has finished
C7_Witness ==
  /\ nruns = 1
  /\ steps[1].serial
  /\ Len(EventsOf(1, "worker", 1)) = 2
  /\ StatesOf(1)[1].done
  /\ ~Failed(1, 1)

(***************************************************************************)
(* C8.  As claimed: in a parallel step over n elements all n workers have  *)
(* been called before the step observes any continuation call.             *)
(***************************************************************************)
C8_AllWorkersFirst ==
  \A r \in 1..nruns : \A k \in Started(r) :
    (~steps[k].serial /\ \E p \in 1..Len(fired[r][k]) : fired[r][k][p] # <<>>) =>
      Len(EventsOf(r, "worker", k)) = InputLen(r, k)

(***************************************************************************)
(* C8, amended.  In a parallel step over n elements all n workers have     *)
(* been called before the step observes a continuation call made           *)
(* asynchronously (after the dispatching loop has returned); a call made   *)
(* synchronously inside the worker of element i is observed when only the  *)
(* workers of elements 0..i have been called.                              *)
(***************************************************************************)
C8_AllWorkersBeforeAsync ==
  (last.r # 0 /\ ~steps[last.k].serial) =>
    LET W == EventsOf(last.r, "worker", last.k)
    IN IF last.sync THEN Len(W) = last.p
       ELSE Len(W) = InputLen(last.r, last.k)

\* an asynchronous call, counted by a parallel step over two elements
C8_Witness ==
  /\ last.r # 0
  /\ ~steps[last.k].serial
  /\ ~last.sync
  /\ ~last.latched
  /\ InputLen(last.r, last.k) = 2

(***************************************************************************)
(* C9.  Runs started by several calls of exec on one Operation are         *)
(* independent.  A step that makes no call of user code for run r leaves   *)
(* the step index, the counters, the latches, the result containers and    *)
(* the trace of r as they are; and two runs that have received the same    *)
(* continuation calls (none of them an error in a parallel step, where the *)
(* outcome depends on the order of the calls) have called the same workers *)
(* and completion callbacks with the same arguments, however their calls   *)
(* were interleaved.                                                       *)
(***************************************************************************)
NoParallelError(r) ==
  \A k \in Started(r) : steps[k].serial \/ OkCalls(r, k) =
    SumSeq([p \in 1..Len(fired[r][k]) |-> Len(fired[r][k][p])])

C9_SameOutcome ==
  \A r1 \in 1..nruns : \A r2 \in 1..nruns :
    (stack = <<>> /\ fired[r1] = fired[r2] /\ NoParallelError(r1)) =>
      trace[r1] = trace[r2]

C9_OwnState ==
  \A r \in Runs :
    fired'[r] = fired[r] =>
      /\ oper_state'[OperState(r)] = oper_state[OperState(r)]
      /\ state'[OperState(r)] = state[OperState(r)]
      /\ trace'[r] = trace[r]

C9_IndependentRuns == [][C9_OwnState]_vars /\ []C9_SameOutcome

\* the second run has finished between two continuation calls of the first,
\* and both have finished with the same calls
C9_Witness ==
  /\ nruns = 2
  /\ last.r = 1
  /\ Len(array) = 2
  /\ fired[1] = fired[2]
  /\ Len(OkCallbacks(1, 1)) > 0
  /\ Len(OkCallbacks(2, 1)) > 0

(***************************************************************************)
(* C10.  As claimed: a forEach step that finishes without error passes its *)
(* input sequence to its completion callbacks, and the next step gets that *)
(* sequence as its input.                                                  *)
(***************************************************************************)
C10_ForEachResultIsInput ==
  \A r \in 1..nruns : \A k \in Started(r) :
    steps[k].kind = "forEach" =>
      /\ \A c \in 1..Len(OkCallbacks(r, k)) :
           OkCallbacks(r, k)[c].res = ArrayOf(StatesOf(r), k)
      /\ (k + 1) \in Started(r) =>
           ArrayOf(StatesOf(r), k + 1) = ArrayOf(StatesOf(r), k)

(***************************************************************************)
(* C11.  As claimed: a call of a continuation of a step that has latched   *)
(* done calls no worker and no completion callback and leaves the counter, *)
(* the latch and the result container of the step (the array its           *)
(* completion callbacks were given) as they were.                          *)
(***************************************************************************)
C11_LateCallNoOp ==
  [][(last'.r # 0 /\ last'.latched) =>
       /\ trace' = trace
       /\ state' = state
       /\ oper_state' = oper_state]_vars

\* The part of it that holds: no user code is called, and the counter, the
\* latch and the step index stay as they were
C11_LateCallCallsNothing ==
  [][(last'.r # 0 /\ last'.latched) =>
       /\ trace' = trace
       /\ oper_state' = oper_state
       /\ \A k \in 1..Len(state[last'.r]) :
            /\ state'[last'.r][k].count = state[last'.r][k].count
            /\ state'[last'.r][k].done = state[last'.r][k].done]_vars

(***************************************************************************)
(* C12.  As claimed: a filter step keeps element i exactly when the        *)
(* continuation of element i was called without error and with a truthy    *)
(* second argument, the boolean true or any other truthy value.  Stated    *)
(* for the parallel filter, whose result holds the kept elements.          *)
(***************************************************************************)
IsTruthy(data) == data \in {True, Truthy, Truthy2}

TruthyIndices(r, k) ==
  SelectSeq([p \in 1..Len(fired[r][k]) |-> p - 1],
            LAMBDA i : /\ fired[r][k][i + 1] # <<>>
                       /\ fired[r][k][i + 1][1][1] = Null
                       /\ IsTruthy(fired[r][k][i + 1][1][2]))

C12_TruthyKeeps ==
  \A r \in 1..nruns : \A k \in Started(r) :
    (steps[k].kind = "filter" /\ ~steps[k].serial) =>
      \A c \in 1..Len(OkCallbacks(r, k)) :
        OkCallbacks(r, k)[c].res =
          [j \in 1..Len(TruthyIndices(r, k)) |->
             At(ArrayOf(StatesOf(r), k), TruthyIndices(r, k)[j])]

(***************************************************************************)
(* C13.  When a step finishes, by error or by success, each completion     *)
(* callback registered on it is called exactly once, in the order of       *)
(* registration, one right after the other, all with the same error and    *)
(* the same result; no callback of the step is called before that, and no  *)
(* callback of another step is called among them.                          *)
(***************************************************************************)
\* the positions in the trace of run r of the completion callbacks of step k
CallbackPositions(r, k) ==
  SelectSeq([j \in 1..Len(trace[r]) |-> j],
            LAMBDA j : trace[r][j].e = "cb" /\ trace[r][j].k = k)

C13_AllCallbacksInOrder ==
  \A r \in 1..nruns : \A k \in Started(r) :
    LET pos == CallbackPositions(r, k)
    IN IF StatesOf(r)[k].done
       THEN /\ Len(pos) = steps[k].callbacks
            /\ \A j \in 1..Len(pos) :
                 /\ trace[r][pos[j]].c = j
                 /\ pos[j] = pos[1] + j - 1
                 /\ trace[r][pos[j]].err = trace[r][pos[1]].err
                 /\ trace[r][pos[j]].res = trace[r][pos[1]].res
       ELSE pos = <<>>

\* both steps of a chain have finished, the first with two callbacks and
\* the second with one
C13_Witness ==
  /\ nruns = 1
  /\ Len(steps) = 2
  /\ steps[1].callbacks = 2
  /\ steps[2].callbacks = 1
  /\ Len(array) = 2
  /\ Len(CallbackPositions(1, 1)) = 2
  /\ Len(CallbackPositions(1, 2)) = 1

(***************************************************************************)
(* C14.  In a chain of a parallel filter and then a parallel map whose     *)
(* continuations are each called once without error, whenever a completion *)
(* callback of the map has been called with success: the input of the map  *)
(* is the result the callbacks of the filter were given, which is the kept *)
(* elements in their original order; the workers of the map were called    *)
(* with the indices 0..k-1 of that sequence and its elements; and the      *)
(* result of the map holds, at each of these indices, the value the worker *)
(* called with it passed on.                                               *)
(***************************************************************************)
FilterThenMap ==
  /\ Len(steps) = 2
  /\ steps[1].kind = "filter" /\ ~steps[1].serial
  /\ steps[2].kind = "map" /\ ~steps[2].serial

C14_FilterThenMap ==
  \A r \in 1..nruns :
    (FilterThenMap /\ 2 \in Started(r) /\ OkCallbacks(r, 2) # <<>>) =>
      LET F == OkCallbacks(r, 1)[1].res
          W == EventsOf(r, "worker", 2)
      IN /\ ArrayOf(StatesOf(r), 2) = F
         /\ F = Kept(r, 1)
         /\ Len(W) = Len(F)
         /\ \A j \in 1..Len(W) : W[j].i = j - 1 /\ W[j].item = F[j]
         /\ \A c \in 1..Len(OkCallbacks(r, 2)) :
              LET res == OkCallbacks(r, 2)[c].res
              IN /\ Len(res) = Len(F)
                 /\ \A j \in 1..Len(F) : res[j] = Passed(r, 2, j - 1)

\* the filter has dropped element 0 of two, and the map, called with index 0
\* for element 1, has finished
C14_Witness ==
  /\ FilterThenMap
  /\ nruns = 1
  /\ Len(array) = 2
  /\ 2 \in Started(1)
  /\ OkCallbacks(1, 2) # <<>>
  /\ OkCallbacks(1, 1)[1].res = <<Item(1)>>
  /\ EventsOf(1, "worker", 2)[1].i = 0
  /\ EventsOf(1, "worker", 2)[1].item = Item(1)

(***************************************************************************)
(* C15.  In one run each step is pending (not run), running (run, not      *)
(* latched) or finished (latched), in that order: a latch that is set      *)
(* stays set, a step is run at most once, and it is finished at most once  *)
(* (each of its completion callbacks is called at most once, and only when *)
(* the latch is set), also when continuations are called more than once    *)
(* or after the latch.                                                     *)
(***************************************************************************)
C15_LatchStays ==
  \A r \in 1..nruns : \A k \in Started(r) :
    StatesOf(r)[k].done =>
      /\ StatesOf(r)'[k].done
      /\ EventsOf(r, "cb", k)' = EventsOf(r, "cb", k)
      /\ EventsOf(r, "run", k)' = EventsOf(r, "run", k)

C15_FinalizeOnce ==
  \A r \in 1..nruns : \A k \in Started(r) :
    /\ Len(EventsOf(r, "run", k)) = 1
    /\ Len(EventsOf(r, "cb", k)) =
         IF StatesOf(r)[k].done THEN steps[k].callbacks ELSE 0
    /\ (k < Len(steps) /\ (k + 1) \in Started(r)) => StatesOf(r)[k].done

C15_StepLifeCycle == [][C15_LatchStays]_vars /\ []C15_FinalizeOnce

\* a continuation of a step over two elements that has finished with
\* success is called again
C15_Witness ==
  /\ last.r # 0
  /\ last.latched
  /\ InputLen(last.r, last.k) = 2
  /\ ~Failed(last.r, last.k)
  /\ Len(EventsOf(last.r, "cb", last.k)) = steps[last.k].callbacks

(***************************************************************************)
(* C16.  In every state of a run the step index of its OperState is the    *)
(* number of steps of the run that have finished with success (so it is    *)
(* one more after each such finish and the same after a finish with an     *)
(* error), and it is between 0 and the number of steps.                    *)
(***************************************************************************)
Succeeded(r) == {k \in Started(r) : StatesOf(r)[k].done /\ ~Failed(r, k)}

C16_IndexCountsSuccesses ==
  \A r \in 1..nruns :
    /\ oper_state[OperState(r)] = Cardinality(Succeeded(r))
    /\ oper_state[OperState(r)] >= 0
    /\ oper_state[OperState(r)] <= Len(steps)

\* the first of two steps has finished with success and the second with an
\* error: the index is 1
C16_Witness ==
  /\ nruns = 1
  /\ Len(steps) = 2
  /\ Len(array) = 2
  /\ 2 \in Started(1)
  /\ Failed(1, 2)
  /\ oper_state[OperState(1)] = 1

\* both steps have finished with success: the index is the number of steps
C16_WitnessLast ==
  /\ nruns = 1
  /\ Len(steps) = 2
  /\ Len(array) = 2
  /\ Succeeded(1) = {1, 2}
  /\ oper_state[OperState(1)] = 2

(***************************************************************************)
(* C17.  An argument passed to exec is inert.  Starting a run, with or     *)
(* without an argument, leaves the steps and their completion callbacks as *)
(* they were built; a run calls nothing but workers and the completion     *)
(* callbacks registered with done() before it; and a run started with an   *)
(* argument and one started without, having received the same continuation *)
(* calls, have called the same workers and completion callbacks with the   *)
(* same arguments.                                                         *)
(***************************************************************************)
C17_SameAsNoArgument ==
  \A r1 \in 1..nruns : \A r2 \in 1..nruns :
    /\ \A j \in 1..Len(trace[r1]) :
         /\ trace[r1][j].e \in {"run", "worker", "cb"}
         /\ trace[r1][j].e = "cb" => trace[r1][j].c <= MaxCallbacks
    /\ (passed[r1] /\ ~passed[r2] /\ stack = <<>> /\ fired[r1] = fired[r2]
        /\ NoParallelError(r1)) =>
         trace[r1] = trace[r2]

C17_ExecKeepsChain == nruns' # nruns => (steps' = steps /\ array' = array)

C17_WitnessError ==
  /\ nruns = 2
  /\ ~passed[1] /\ passed[2]
  /\ Len(array) = 2
  /\ Failed(1, 1) /\ Failed(2, 1)

(***************************************************************************)
(* C18.  As claimed: every run comes to an end.  If every worker that is   *)
(* called calls its continuation once, the run reaches a state in which    *)
(* the completion callbacks of some step have been called with an error,   *)
(* or those of the last step with success; also when a step in the middle  *)
(* of the chain yields an empty sequence.                                  *)
(***************************************************************************)
Terminal(r) ==
  \E j \in 1..Len(trace[r]) :
    /\ trace[r][j].e = "cb"
    /\ trace[r][j].err # Null \/ trace[r][j].k = Len(steps)

C18_Terminates == \A r \in Runs : (r <= nruns) ~> Terminal(r)

\* What holds: a run comes to an end unless it runs a parallel step over an
\* empty sequence
RanParallelOverEmpty(r) ==
  \E k \in Started(r) : ~steps[k].serial /\ InputLen(r, k) = 0

C18_TerminatesUnlessEmpty ==
  \A r \in Runs : (r <= nruns) ~> (Terminal(r) \/ RanParallelOverEmpty(r))

(***************************************************************************)
(* C19.  As claimed: while each continuation is called at most once, a     *)
(* step over a sequence of length n (n >= 0) calls its worker only with an *)
(* index in 0..n-1, and with the element at that index.                    *)
(***************************************************************************)
C19_WorkerIndexInRange ==
  \A r \in 1..nruns : \A k \in Started(r) :
    AtMostOnce(r, k) =>
      \A j \in 1..Len(EventsOf(r, "worker", k)) :
        LET w == EventsOf(r, "worker", k)[j]
        IN /\ w.i >= 0
           /\ w.i < InputLen(r, k)
           /\ w.item = ArrayOf(StatesOf(r), k)[w.i + 1]

\* What holds: the same for the parallel steps and for the serial steps
\* over a sequence that is not empty
C19_WorkerIndexInRangeNonEmpty ==
  \A r \in 1..nruns : \A k \in Started(r) :
    (AtMostOnce(r, k) /\ (~steps[k].serial \/ InputLen(r, k) > 0)) =>
      \A j \in 1..Len(EventsOf(r, "worker", k)) :
        LET w == EventsOf(r, "worker", k)[j]
        IN /\ w.i >= 0
           /\ w.i < InputLen(r, k)
           /\ w.item = ArrayOf(StatesOf(r), k)[w.i + 1]

(***************************************************************************)
(* C20.  As claimed: once a step has latched done, no worker of that step  *)
(* is called, in serial and in parallel mode, also when a worker of a      *)
(* parallel step passes an error to its continuation synchronously while   *)
(* elements are left to dispatch.                                          *)
(***************************************************************************)
C20_NoWorkerAfterLatch ==
  [][\A r \in 1..nruns : \A k \in Started(r) :
       StatesOf(r)[k].done =>
         EventsOf(r, "worker", k)' = EventsOf(r, "worker", k)]_vars

(***************************************************************************)
(* C20, amended.  Once a step has latched done, a worker of that step is   *)
(* called only by the dispatch loop of that step, a parallel one, which is *)
(* still running: the loop goes on over the elements that are left.  A     *)
(* serial step, and a parallel step whose loop has returned, call no       *)
(* worker after the latch.                                                 *)
(***************************************************************************)
C20_OnlyTheRunningLoop ==
  [][\A r \in 1..nruns : \A k \in Started(r) :
       (/\ StatesOf(r)[k].done
        /\ EventsOf(r, "worker", k)' # EventsOf(r, "worker", k)) =>
         /\ ~steps[k].serial
         /\ stack # <<>>
         /\ Top.t = "loop" /\ Top.r = r /\ Top.k = k
         /\ Top.i < Top.len
         /\ Len(EventsOf(r, "worker", k)') = Top.i + 1]_vars

\* the dispatch loop of a parallel step that has failed has just called the
\* worker of the next element
C20_Witness ==
  /\ stack # <<>>
  /\ Top.t = "worker"
  /\ ~steps[Top.k].serial
  /\ StatesOf(Top.r)[Top.k].done
  /\ Failed(Top.r, Top.k)
  /\ fired[Top.r][Top.k][Top.p] = <<>>
  /\ Top.p = 2

\* a continuation of a serial step that has failed is called again, with
\* elements left
C20_WitnessSerial ==
  /\ last.r # 0
  /\ last.latched
  /\ last.err = Null
  /\ steps[last.k].serial
  /\ Failed(last.r, last.k)
  /\ Len(EventsOf(last.r, "worker", last.k)) < InputLen(last.r, last.k)

====
